---- MODULE Spec2Model ----
(***************************************************************************)
(* ObservedKeyList (lib/observed-key-list.js): a Set of config keys, each  *)
(* observed through atom.config.observe, whose change notifications are    *)
(* coalesced into one deferred call of the instance's callback.            *)
(*                                                                         *)
(* A JavaScript string is a sequence of one-character strings.  A key of   *)
(* the list is such a sequence.                                            *)
(***************************************************************************)
EXTENDS Integers, Sequences, FiniteSets

VARIABLES
    keys,            \* the Set's own contents (super.add / super.delete / super.clear)
    disposables,     \* this.disposables: [id, disposed, map], id the identity of the
                     \* MappedDisposable, map a set of <<key, handle>>
    callback,        \* this.callback: "null", "fn" or "notfn" (a truthy non-function)
    callbackQueued,  \* this.callbackQueued (undefined reads as FALSE)
    observers,       \* atom.config: the live subscriptions, a set of [id, key]; an
                     \* id is the identity of the Disposable that observe returned
    tickQueue,       \* process.nextTick: the tasks scheduled and not yet run
    calls,           \* number of invocations of the callback
    lastCall,        \* [args, thisArg] of the latest invocation of the callback
    lastOp,          \* the operation that produced this state: [op, arg, key]
    thrown,          \* what that operation threw, "none" if it returned
    burst,           \* history: notifications that fell into the latest coalescing
                     \* window, the one that opened it included
    changed,         \* history: the latest operation changed the Set's contents
    script,          \* history: how far the behaviour follows, from construction
                     \* with a callback, add("a"); delete("a"); set a; one turn
    view,            \* an AtomLiveView, which has a list as its observedKeys:
                     \* [renderState, inFlight, loaded, destroyed, autoRefresh,
                     \* autoFocus, offsets, log], inFlight the invocations of
                     \* render() not yet settled, log what the latest step did
    workspace        \* atom.workspace: [viewInPane, paneItem, activePane], paneItem
                     \* the active item of the pane the view is shown in

vars == <<keys, disposables, callback, callbackQueued, observers,
          tickQueue, calls, lastCall, lastOp, thrown, burst, changed, script,
          view, workspace>>

----------------------------------------------------------------------------
(* Bounds of the model. *)

MaxCalls == 2        \* callback invocations in one behaviour
MaxBurst == 3        \* notifications absorbed by one deferred dispatch

----------------------------------------------------------------------------
(* JavaScript values handed to add() and delete(). *)

WhiteSpace == {" ", "\t"}

Str(s) == [t |-> "string", s |-> s, n |-> 0]
Num(n) == [t |-> "number", s |-> <<>>, n |-> n]
Bool(b) == [t |-> "boolean", s |-> <<>>, n |-> IF b THEN 1 ELSE 0]
Ref(id) == [t |-> "object", s |-> <<>>, n |-> id]
Null == [t |-> "object", s |-> <<>>, n |-> 0]
Undefined == [t |-> "undefined", s |-> <<>>, n |-> 0]
Fn == [t |-> "function", s |-> <<>>, n |-> 0]

(* The objects the inputs refer to: object id -> [iterable, items].        *)
(*   1: ["a", "b"]         2: [["a", "b"]]        3: {foo: "bar"}          *)
(*   4: x = ["a", x, "b"]  5: [" \t a  b\t"]      6: ["a", {foo: "bar"}]   *)
(*   7: [["a", {foo: "bar"}]]                                              *)
(*   8: y = ["a", z]       9: z = ["b", y]        10: [["a", "b"], the same] *)
Heap ==
    <<[iterable |-> TRUE,  items |-> <<Str(<<"a">>), Str(<<"b">>)>>],
      [iterable |-> TRUE,  items |-> <<Ref(1)>>],
      [iterable |-> FALSE, items |-> <<>>],
      [iterable |-> TRUE,  items |-> <<Str(<<"a">>), Ref(4), Str(<<"b">>)>>],
      [iterable |-> TRUE,  items |-> <<Str(<<" ", "\t", " ", "a", " ", " ", "b", "\t">>)>>],
      [iterable |-> TRUE,  items |-> <<Str(<<"a">>), Ref(3)>>],
      [iterable |-> TRUE,  items |-> <<Ref(6)>>],
      [iterable |-> TRUE,  items |-> <<Str(<<"a">>), Ref(9)>>],
      [iterable |-> TRUE,  items |-> <<Str(<<"b">>), Ref(8)>>],
      [iterable |-> TRUE,  items |-> <<Ref(1), Ref(1)>>]>>

(* typeof value *)
TypeOf(v) == v.t

(* !value is false *)
Truthy(v) ==
    CASE v.t = "string" -> v.s # <<>>
      [] v.t = "number" -> v.n # 0
      [] v.t = "boolean" -> v.n = 1
      [] v.t = "object" -> v.n # 0
      [] v.t = "function" -> TRUE
      [] OTHER -> FALSE

DigitChars == <<"0", "1", "2", "3", "4", "5", "6", "7", "8", "9">>

RECURSIVE Decimal(_)
Decimal(n) ==
    IF n < 10 THEN <<DigitChars[n + 1]>>
    ELSE Decimal(n \div 10) \o <<DigitChars[(n % 10) + 1]>>

(* String(value) for a value that is neither a string nor an object *)
StringOf(v) ==
    CASE v.t = "number" -> Decimal(v.n)
      [] v.t = "boolean" -> IF v.n = 1 THEN <<"t", "r", "u", "e">>
                                       ELSE <<"f", "a", "l", "s", "e">>
      [] OTHER -> <<"u", "n", "d", "e", "f", "i", "n", "e", "d">>

(* String.prototype.trim *)
RECURSIVE TrimStart(_)
TrimStart(s) ==
    IF s # <<>> /\ Head(s) \in WhiteSpace THEN TrimStart(Tail(s)) ELSE s

RECURSIVE TrimEnd(_)
TrimEnd(s) ==
    IF s # <<>> /\ s[Len(s)] \in WhiteSpace
    THEN TrimEnd(SubSeq(s, 1, Len(s) - 1))
    ELSE s

Trim(s) == TrimEnd(TrimStart(s))

(* Variant: split(/\s/), which cuts at every white-space character. *)
RECURSIVE SplitOnEach(_)
SplitOnEach(s) ==
    LET ws == {i \in 1..Len(s) : s[i] \in WhiteSpace} IN
    IF ws = {} THEN <<s>>
    ELSE LET i == CHOOSE x \in ws : \A y \in ws : x <= y
         IN <<SubSeq(s, 1, i - 1)>> \o SplitOnEach(SubSeq(s, i + 1, Len(s)))

(* String.prototype.split(/\s+/): the pieces between the maximal runs of   *)
(* white space; a string without white space, the empty one included, is   *)
(* its own single piece.                                                   *)
RECURSIVE Split(_)
Split(s) ==
    LET ws == {i \in 1..Len(s) : s[i] \in WhiteSpace} IN
    IF ws = {} THEN <<s>>
    ELSE LET i == CHOOSE x \in ws : \A y \in ws : x <= y
             rest == TrimStart(SubSeq(s, i, Len(s)))
         IN <<SubSeq(s, 1, i - 1)>> \o Split(rest)

NotIterable == "TypeError: Object is not iterable"
NotAFunction == "TypeError: this.callback is not a function"
NullOperand == "TypeError: Cannot use 'in' operator to search for 'Symbol(Symbol.iterator)' in null"

(* normaliseKeys(input, refs): [thrown, output, refs].  refs is the WeakSet *)
(* shared by the whole recursion, so it is threaded through the loop.      *)
RECURSIVE normaliseKeys(_, _), NormaliseLoop(_, _)

(* Variant: each nested collection gets a copy of the visited set, so the  *)
(* set holds what encloses a collection and not what came before it.       *)
RECURSIVE NormaliseLoopByCopy(_, _)
NormaliseLoopByCopy(input, refs) ==
    IF input = <<>> THEN [thrown |-> "none", output |-> <<>>, refs |-> refs]
    ELSE LET value == Head(input) IN
         IF ~Truthy(value) THEN NormaliseLoopByCopy(Tail(input), refs)
         ELSE IF TypeOf(value) = "string"
         THEN LET r == NormaliseLoopByCopy(Tail(input), refs)
              IN [r EXCEPT !.output = Split(Trim(value.s)) \o @]
         ELSE IF TypeOf(value) = "object"
         THEN IF value.n \in refs THEN NormaliseLoopByCopy(Tail(input), refs)
              ELSE LET sub == normaliseKeys(value, refs \cup {value.n}) IN
                   IF sub.thrown # "none" THEN sub
                   ELSE LET r == NormaliseLoopByCopy(Tail(input), refs)
                        IN [r EXCEPT !.output = sub.output \o @]
         ELSE NormaliseLoopByCopy(Tail(input), refs)

NormaliseLoop(input, refs) ==
    IF input = <<>> THEN [thrown |-> "none", output |-> <<>>, refs |-> refs]
    ELSE LET value == Head(input) IN
         IF ~Truthy(value) THEN NormaliseLoop(Tail(input), refs)
         ELSE IF TypeOf(value) = "string"
         THEN LET r == NormaliseLoop(Tail(input), refs)
              IN [r EXCEPT !.output = Split(Trim(value.s)) \o @]
         ELSE IF TypeOf(value) = "object"
         THEN IF value.n \in refs THEN NormaliseLoop(Tail(input), refs)
              ELSE LET sub == normaliseKeys(value, refs \cup {value.n}) IN
                   IF sub.thrown # "none" THEN sub
                   ELSE LET r == NormaliseLoop(Tail(input), sub.refs)
                        IN [r EXCEPT !.output = sub.output \o @]
         ELSE NormaliseLoop(Tail(input), refs)

(* Variant: no check that an object is iterable; Array.from() of one that  *)
(* is not gives an empty array.                                            *)
normaliseKeysLenient(input, refs) ==
    CASE TypeOf(input) = "string" -> NormaliseLoop(<<input>>, refs)
      [] TypeOf(input) = "object" ->
            IF input.n = 0
            THEN [thrown |-> NullOperand, output |-> <<>>, refs |-> refs]
            ELSE IF ~Heap[input.n].iterable
            THEN NormaliseLoop(<<>>, refs \cup {input.n})
            ELSE NormaliseLoop(Heap[input.n].items, refs \cup {input.n})
      [] OTHER -> NormaliseLoop(<<Str(StringOf(input))>>, refs)

normaliseKeys(input, refs) ==
    CASE TypeOf(input) = "string" -> NormaliseLoop(<<input>>, refs)
      [] TypeOf(input) = "object" ->
            IF input.n = 0
            THEN [thrown |-> NullOperand, output |-> <<>>, refs |-> refs]
            ELSE IF ~Heap[input.n].iterable
            THEN [thrown |-> NotIterable, output |-> <<>>, refs |-> refs]
            ELSE NormaliseLoop(Heap[input.n].items, refs \cup {input.n})
      [] OTHER -> NormaliseLoop(<<Str(StringOf(input))>>, refs)

(* this.normaliseKeys(keys) for the rest parameter of add(...keys) and     *)
(* delete(...keys): a fresh array, which no value can refer to, written    *)
(* as object 0 of the WeakSet.                                             *)
NormaliseArgs(args) == NormaliseLoop(args, {0})

----------------------------------------------------------------------------
(* The argument lists the model calls add() and delete() with. *)

Inputs ==
    <<  <<Str(<<"a">>)>>,                                   \* 1  ("a")
        <<Str(<<"b">>)>>,                                   \* 2  ("b")
        <<Str(<<"a", " ", "b">>)>>,                         \* 3  ("a b")
        <<Ref(1)>>,                                         \* 4  (["a", "b"])
        <<Str(<<"a">>), Str(<<"b">>)>>,                     \* 5  ("a", "b")
        <<Str(<<" ", "a", " ", " ", "b", " ">>)>>,          \* 6  (" a  b ")
        <<Ref(2)>>,                                         \* 7  ([["a", "b"]])
        <<Ref(5)>>,                                         \* 8  ([" \t a  b\t"])
        <<Ref(4)>>,                                         \* 9  (x), x = ["a", x, "b"]
        <<Str(<<" ">>)>>,                                   \* 10 (" ")
        <<Str(<<>>), Num(50), Str(<<"b">>)>>,               \* 11 ("", 50, "b")
        <<Ref(3)>>,                                         \* 12 ({foo: "bar"})
        <<Str(<<"a">>), Ref(6)>>,                           \* 13 ("a", ["a", {foo: "bar"}])
        <<Ref(7)>>,                                         \* 14 ([["a", {foo: "bar"}]])
        <<Ref(8)>>,                                         \* 15 (y), y = ["a", ["b", y]]
        <<Ref(10)>>  >>                                     \* 16 ([c, c]), c = ["a", "b"]

InputIds == 1..Len(Inputs)

(* The argument lists the state machine calls add() with, and those it     *)
(* calls delete() with: one of each effect.  The others are applied, in    *)
(* every state, by the properties that speak of them.                      *)
AddIds == {1, 2, 6, 10, 11, 13, 15}
DeleteIds == {1, 2, 3, 10, 12}

(* Every key a call can name, for atom.config.set. *)
RECURSIVE SeqToSet(_)
SeqToSet(s) == IF s = <<>> THEN {} ELSE {Head(s)} \cup SeqToSet(Tail(s))

ConfigKeys == UNION {SeqToSet(NormaliseArgs(Inputs[i]).output) : i \in InputIds}

----------------------------------------------------------------------------
(* The instance, the host and the scheduler as one record, so that the     *)
(* methods are operators from a world to a world.                          *)

World ==
    [keys |-> keys, disposables |-> disposables, callback |-> callback,
     callbackQueued |-> callbackQueued, observers |-> observers,
     tickQueue |-> tickQueue,
     calls |-> calls, lastCall |-> lastCall, thrown |-> "none", burst |-> burst]

(* The identity of a newly constructed object: one that no object still    *)
(* referenced has.  used is the set of identities in use.                  *)
Fresh(used) == CHOOSE id \in 1..(Cardinality(used) + 1) :
                    id \notin used /\ \A other \in 1..(id - 1) : other \in used

(* this.disposables = new MappedDisposable(), the old one being referenced *)
(* until the assignment.                                                   *)
NewMappedDisposable(w) ==
    [w EXCEPT !.disposables = [id |-> Fresh({w.disposables.id}),
                               disposed |-> FALSE, map |-> {}]]

(* Variant: the closure passes the handler's arguments on to the callback. *)
DispatchTaskForwarding(hostArgs) == [args |-> hostArgs, thisArg |-> "instance"]

(* The closure handed to process.nextTick: it calls this.callback(), with  *)
(* no argument and the instance as receiver, whatever the host passed to   *)
(* the handler that scheduled it.                                          *)
DispatchTask(hostArgs) == [args |-> 0, thisArg |-> "instance"]

(* Variant: the handler does not look at callbackQueued. *)
HandlerUnguarded(w, hostArgs) ==
    IF w.callback = "null" THEN w
    ELSE [w EXCEPT !.callbackQueued = TRUE,
                   !.tickQueue = Append(@, [args |-> 0, thisArg |-> "instance"])]

(* Variant: the handler calls the callback itself instead of deferring. *)
HandlerSynchronous(w, hostArgs) ==
    IF w.callbackQueued \/ w.callback = "null" THEN w
    ELSE IF w.callback = "fn"
    THEN [w EXCEPT !.calls = @ + 1,
                   !.lastCall = [args |-> 0, thisArg |-> "instance"]]
    ELSE [w EXCEPT !.thrown = NotAFunction]

(* The handler given to atom.config.observe, called with hostArgs          *)
(* arguments.                                                              *)
Handler(w, hostArgs) ==
    IF w.callbackQueued \/ w.callback = "null" THEN w
    ELSE [w EXCEPT !.callbackQueued = TRUE,
                   !.tickQueue = Append(@, DispatchTask(hostArgs))]

(* One notification as the host delivers it: the handler runs.  The        *)
(* history counter counts it, when the callback is not null, into the      *)
(* window of the dispatch that is scheduled, or else as the first of a new *)
(* window.                                                                 *)
Notify(w, hostArgs) ==
    LET h == Handler(w, hostArgs) IN
    IF w.callback = "null" THEN h
    ELSE [h EXCEPT !.burst = IF w.tickQueue # <<>> THEN @ + 1 ELSE 1]

(* atom.config.observe(key, handler): registers the handler, calls it once *)
(* with the current value, and returns the subscription.                   *)
ConfigObserve(w, key) ==
    LET id == Fresh({o.id : o \in w.observers})
        reg == [w EXCEPT !.observers = @ \cup {[id |-> id, key |-> key]}]
    IN [world |-> Notify(reg, 1), handle |-> id]

(* MappedDisposable.add(key, disposable) *)
DisposablesAdd(w, key, handle) ==
    IF w.disposables.disposed THEN w
    ELSE [w EXCEPT !.disposables.map = @ \cup {<<key, handle>>}]

(* Variant: dispose(key) forgets the subscriptions held for key without    *)
(* cancelling them.                                                        *)
DisposablesDropKey(w, key) ==
    IF w.disposables.disposed THEN w
    ELSE [w EXCEPT !.disposables.map = {p \in @ : p[1] # key}]

(* MappedDisposable.dispose(key): cancels the subscriptions held for key   *)
DisposablesDisposeKey(w, key) ==
    IF w.disposables.disposed THEN w
    ELSE LET gone == {p \in w.disposables.map : p[1] = key} IN
         [w EXCEPT !.disposables.map = @ \ gone,
                   !.observers = {o \in @ : \A p \in gone : p[2] # o.id}]

(* MappedDisposable.dispose(): cancels every subscription it holds         *)
DisposablesDisposeAll(w) ==
    IF w.disposables.disposed THEN w
    ELSE [w EXCEPT !.disposables.map = {},
                   !.disposables.disposed = TRUE,
                   !.observers = {o \in @ : \A p \in w.disposables.map : p[2] # o.id}]

(* Variant: the loop adds the key to the Set and does not observe it. *)
AddKeyUnobserved(w, key) == [w EXCEPT !.keys = @ \cup {key}]

(* Variant: the loop does not skip a key the Set already has. *)
AddKeyAgain(w, key) ==
    LET obs == ConfigObserve([w EXCEPT !.keys = @ \cup {key}], key)
    IN DisposablesAdd(obs.world, key, obs.handle)

(* The body of add's loop for one key *)
AddKey(w, key) ==
    IF key \in w.keys THEN w
    ELSE LET obs == ConfigObserve([w EXCEPT !.keys = @ \cup {key}], key)
         IN DisposablesAdd(obs.world, key, obs.handle)

RECURSIVE AddLoop(_, _)
AddLoop(w, ks) ==
    IF ks = <<>> THEN w ELSE AddLoop(AddKey(w, Head(ks)), Tail(ks))

(* Variant: add normalises and adds its arguments one after the other. *)
RECURSIVE addIncremental(_, _)
addIncremental(w, args) ==
    IF args = <<>> THEN w
    ELSE LET norm == NormaliseArgs(<<Head(args)>>) IN
         IF norm.thrown # "none" THEN [w EXCEPT !.thrown = norm.thrown]
         ELSE addIncremental(AddLoop(w, norm.output), Tail(args))

(* add(...keys) *)
add(w, args) ==
    LET norm == NormaliseArgs(args) IN
    IF norm.thrown # "none" THEN [w EXCEPT !.thrown = norm.thrown]
    ELSE AddLoop(w, norm.output)

(* Variant: the loop removes the key and keeps its subscription. *)
DeleteKeyKeepsSubscription(w, key) == [w EXCEPT !.keys = @ \ {key}]

(* The body of delete's loop for one key *)
DeleteKey(w, key) == DisposablesDisposeKey([w EXCEPT !.keys = @ \ {key}], key)

RECURSIVE DeleteLoop(_, _)
DeleteLoop(w, ks) ==
    IF ks = <<>> THEN w ELSE DeleteLoop(DeleteKey(w, Head(ks)), Tail(ks))

(* Variant: delete also drops the dispatch that is scheduled. *)
deleteCancelsDispatch(w, args) ==
    LET norm == NormaliseArgs(args) IN
    IF norm.thrown # "none" THEN [w EXCEPT !.thrown = norm.thrown]
    ELSE [DeleteLoop(w, norm.output) EXCEPT !.callbackQueued = FALSE,
                                            !.tickQueue = <<>>]

(* delete(...keys) *)
delete(w, args) ==
    LET norm == NormaliseArgs(args) IN
    IF norm.thrown # "none" THEN [w EXCEPT !.thrown = norm.thrown]
    ELSE DeleteLoop(w, norm.output)

(* Variant: clear replaces the store without disposing of the old one. *)
clearWithoutDispose(w) == NewMappedDisposable([w EXCEPT !.keys = {}])

(* Variant: clear also drops the dispatch that is scheduled. *)
clearCancelsDispatch(w) ==
    [NewMappedDisposable(DisposablesDisposeAll([w EXCEPT !.keys = {}]))
        EXCEPT !.callbackQueued = FALSE, !.tickQueue = <<>>]

(* clear() *)
clear(w) == NewMappedDisposable(DisposablesDisposeAll([w EXCEPT !.keys = {}]))

(* atom.config.set(key, value) with a value that differs from the current  *)
(* one: the host calls the handler of every live subscription of the key.  *)
RECURSIVE NotifyAll(_, _)
NotifyAll(w, n) == IF n = 0 THEN w ELSE NotifyAll(Notify(w, 1), n - 1)

ConfigSet(w, key) ==
    NotifyAll(w, Cardinality({o \in w.observers : o.key = key}))

(* Variant: the task clears the flag after the callback returned. *)
DispatchFlagLast(w, task) ==
    IF w.callback = "fn"
    THEN [w EXCEPT !.calls = @ + 1, !.callbackQueued = FALSE,
                   !.lastCall = [args |-> task.args, thisArg |-> task.thisArg]]
    ELSE [w EXCEPT !.thrown = NotAFunction]

(* The task scheduled by the handler, run by process.nextTick *)
Dispatch(w, task) ==
    LET cleared == [w EXCEPT !.callbackQueued = FALSE] IN
    IF w.callback = "fn"
    THEN [cleared EXCEPT !.calls = @ + 1,
                         !.lastCall = [args |-> task.args, thisArg |-> task.thisArg]]
    ELSE [cleared EXCEPT !.thrown = NotAFunction]

(* One turn of the scheduler: process.nextTick runs every task queued, in  *)
(* order, before anything else gets to run.                                *)
RECURSIVE Drain(_)
Drain(w) ==
    IF w.tickQueue = <<>> THEN w
    ELSE Drain(Dispatch([w EXCEPT !.tickQueue = Tail(@)], Head(w.tickQueue)))

(* The aliases of add and delete *)
observe(w, args) == add(w, args)
unobserve(w, args) == delete(w, args)
remove(w, args) == delete(w, args)

(* What the body of a callback does to the list it is the callback of. *)
Apply(w, op) ==
    CASE op.op = "add" -> add(w, Inputs[op.arg])
      [] op.op = "observe" -> observe(w, Inputs[op.arg])
      [] op.op = "delete" -> delete(w, Inputs[op.arg])
      [] op.op = "remove" -> remove(w, Inputs[op.arg])
      [] op.op = "clear" -> clear(w)
      [] OTHER -> w

(* The task scheduled by the handler, with a callback whose body is body:  *)
(* the body runs after the flag is cleared.                                *)
DispatchRunning(w, task, body) ==
    LET called == Dispatch(w, task) IN
    IF w.callback = "fn" THEN Apply(called, body) ELSE called

(* One turn of the scheduler with such a callback: a dispatch that the     *)
(* body's own calls schedule runs in the same turn.                        *)
RECURSIVE DrainRunning(_, _)
DrainRunning(w, body) ==
    IF w.tickQueue = <<>> THEN w
    ELSE DrainRunning(DispatchRunning([w EXCEPT !.tickQueue = Tail(@)],
                                      Head(w.tickQueue), body), body)

(* Variant: the task clears the flag when the callback has returned, so    *)
(* the callback's mutation finds it set.                                   *)
DispatchMutatingFlagLast(w, task, key) ==
    IF w.callback = "fn"
    THEN LET running == [w EXCEPT !.calls = @ + 1,
                                  !.lastCall = [args |-> task.args, thisArg |-> task.thisArg]]
         IN [ConfigSet(running, key) EXCEPT !.callbackQueued = FALSE]
    ELSE Dispatch(w, task)

(* The task scheduled by the handler, with a callback that mutates key in  *)
(* the host: the host notifies the list while the callback is executing.   *)
DispatchMutating(w, task, key) ==
    LET called == Dispatch(w, task) IN
    IF w.callback = "fn" THEN ConfigSet(called, key) ELSE called

(* The instance before the constructor's body runs: the values of the      *)
(* prototype, an empty Set, no store yet (identity 0).                     *)
Unconstructed ==
    [keys |-> {}, disposables |-> [id |-> 0, disposed |-> FALSE, map |-> {}],
     callback |-> "null", callbackQueued |-> FALSE, observers |-> {},
     tickQueue |-> <<>>, calls |-> 0,
     lastCall |-> [args |-> 0, thisArg |-> "none"], thrown |-> "none", burst |-> 0]

NotAFunctionArg == "TypeError: Callback argument is not a function"

(* What the callback property holds when it holds the value v. *)
CallbackOf(v) ==
    CASE v = Null -> "null"
      [] TypeOf(v) = "function" -> "fn"
      [] OTHER -> "notfn"

(* Variant: the constructor validates the callback after it added the keys. *)
constructorValidatesLast(callbackArg, keyArgs) ==
    LET cb == IF callbackArg = Undefined THEN Null ELSE callbackArg
        made == NewMappedDisposable([Unconstructed EXCEPT !.callback = CallbackOf(cb)])
        done == IF keyArgs # <<>> THEN add(made, keyArgs) ELSE made
    IN  IF cb # Null /\ TypeOf(cb) # "function"
        THEN [done EXCEPT !.thrown = NotAFunctionArg]
        ELSE done

(* constructor(callback = null, ...keys) *)
constructor(callbackArg, keyArgs) ==
    LET cb == IF callbackArg = Undefined THEN Null ELSE callbackArg IN
    IF cb # Null /\ TypeOf(cb) # "function"
    THEN [Unconstructed EXCEPT !.thrown = NotAFunctionArg]
    ELSE LET made == NewMappedDisposable([Unconstructed EXCEPT !.callback = CallbackOf(cb)])
         IN  IF keyArgs # <<>> THEN add(made, keyArgs) ELSE made

----------------------------------------------------------------------------
(* AtomLiveView.  A site is the view with the workspace it lives in, the   *)
(* operand of the view's methods: [view, workspace].                       *)

(* Variant: a view starts with renderState at "none". *)
NewViewStartsNone(autoRefresh, autoFocus) ==
    [renderState |-> "none", inFlight |-> 0, loaded |-> FALSE, destroyed |-> FALSE,
     autoRefresh |-> autoRefresh, autoFocus |-> autoFocus, offsets |-> TRUE,
     log |-> <<>>]

(* The fields of a view after the constructor's synchronous part; offsets  *)
(* tells whether state.offsets is still to be restored.                    *)
NewView(autoRefresh, autoFocus) ==
    [renderState |-> "", inFlight |-> 0, loaded |-> FALSE, destroyed |-> FALSE,
     autoRefresh |-> autoRefresh, autoFocus |-> autoFocus, offsets |-> TRUE,
     log |-> <<>>]

(* The workspace when the view is constructed: the view is in no pane yet. *)
NewWorkspace(activePane) ==
    [viewInPane |-> FALSE, paneItem |-> "other", activePane |-> activePane]

Logged(s, kind, value) ==
    [s EXCEPT !.view.log = Append(@, [kind |-> kind, value |-> value])]

(* this.renderState = value *)
SetRenderState(s, value) ==
    [Logged(s, "state", value) EXCEPT !.view.renderState = value]

(* emit(eventName): nothing once destroy() has set the emitter to null *)
emit(s, eventName) ==
    IF s.view.destroyed THEN s ELSE Logged(s, "emit", eventName)

(* utils.isItemVisible(item): the view has its element from construction;  *)
(* its pane is alive and among the visible panes.                          *)
isItemVisible(s) == s.workspace.paneItem = "view"

getVisible(s) == isItemVisible(s)

(* The call this.render(): the procedure is started and not yet settled. *)
render(s) == [Logged(s, "call", "render") EXCEPT !.view.inFlight = @ + 1]

restoreOffsets(s) == [s EXCEPT !.view.offsets = FALSE]

(* Variant: handleRender without its guard. *)
handleRenderUnguarded(s) ==
    IF getVisible(s)
    THEN render(emit(SetRenderState(s, "rendering"), "did-render-started"))
    ELSE emit(SetRenderState(s, "pending"), "did-queue-render")

(* Variant: a request that handleRender turns away is announced. *)
handleRenderAnnounces(s) ==
    IF s.view.renderState \in {"rendering", "pending"}
    THEN emit(s, "did-queue-render")
    ELSE IF getVisible(s)
    THEN render(emit(SetRenderState(s, "rendering"), "did-render-started"))
    ELSE emit(SetRenderState(s, "pending"), "did-queue-render")

(* handleRender(), up to its await *)
handleRender(s) ==
    IF s.view.renderState \in {"rendering", "pending"} THEN s
    ELSE IF getVisible(s)
    THEN render(emit(SetRenderState(s, "rendering"), "did-render-started"))
    ELSE emit(SetRenderState(s, "pending"), "did-queue-render")

(* Variant: a render that completes resets renderState to "none". *)
handleRenderResumesResets(s, outcome) ==
    LET settled == [s EXCEPT !.view.inFlight = @ - 1] IN
    IF outcome = "resolve"
    THEN restoreOffsets(emit(SetRenderState(settled, "none"), "did-render-finish"))
    ELSE settled

(* handleRender() from its await on, when the promise of render() settles: *)
(* a rejection leaves the function at the await.                           *)
handleRenderResumes(s, outcome) ==
    LET settled == [s EXCEPT !.view.inFlight = @ - 1] IN
    IF outcome = "resolve"
    THEN restoreOffsets(emit(SetRenderState(settled, "finished"), "did-render-finish"))
    ELSE settled

(* Variant: the observer calls handleRender without resetting renderState. *)
onActivePaneItemKeepsState(s, item) ==
    IF item = "view" /\ s.view.renderState = "pending"
    THEN handleRender(s)
    ELSE s

(* The function given to atom.workspace.observeActivePaneItem *)
onActivePaneItem(s, item) ==
    IF item = "view" /\ s.view.renderState = "pending"
    THEN handleRender(SetRenderState(s, "none"))
    ELSE s

(* The item the host reports to observers of the active pane item. *)
ActivePaneItem(ws) == IF ws.activePane = "viewPane" THEN ws.paneItem ELSE "other"

(* onChange, the handler handleEvents() registers for changes of the source *)
onChange(s) ==
    IF ~s.view.autoRefresh THEN s
    ELSE LET focused ==
                 IF /\ s.view.autoFocus
                    /\ s.workspace.viewInPane
                    /\ s.workspace.activePane # "viewPane"
                 THEN [s EXCEPT !.workspace.paneItem = "view"]
                 ELSE s
         IN handleRender(focused)

(* The function the constructor gives to waitToLoad().then: it registers   *)
(* the observer, which the host calls at once with the active pane item,   *)
(* then handleEvents() and handleRender(), directly or through watchFile.  *)
(* On a destroyed view this.disposables is null and the function throws.   *)
load(s) ==
    IF s.view.destroyed THEN [s EXCEPT !.view.loaded = TRUE]
    ELSE LET observing == onActivePaneItem([s EXCEPT !.view.loaded = TRUE],
                                           ActivePaneItem(s.workspace))
         IN handleRender(emit(observing, "did-change-title"))

(* watchFile(path), called when the editor of the source is destroyed *)
watchFile(s) == handleRender(emit(s, "did-change-title"))

(* destroy(), but for observedKeys.clear() *)
destroy(s) == [emit(s, "did-destroy") EXCEPT !.view.destroyed = TRUE]

----------------------------------------------------------------------------
(* The state machine. *)

(* An operation: arg is the index in Inputs of the argument list of add    *)
(* and delete, the index in CtorArgs of that of new; key is the key        *)
(* atom.config.set is called with.                                         *)
Op(name, arg) == [op |-> name, arg |-> arg, key |-> <<>>]
SetOp(key) == [op |-> "set", arg |-> 0, key |-> key]

(* The scenario add("a"); delete("a"); set a; one turn, on a new list. *)
ScriptSteps == <<Op("add", 1), Op("delete", 1), SetOp(<<"a">>), Op("tick", 0)>>

ScriptNext(at, op) ==
    IF at < Len(ScriptSteps) /\ op = ScriptSteps[at + 1] THEN at + 1 ELSE Len(ScriptSteps) + 1

(* The constructor returned: one that threw leaves no instance to call. *)
Constructed == ~(lastOp.op = "new" /\ thrown # "none")

Commit(w, op) ==
    /\ Constructed
    /\ keys' = w.keys
    /\ disposables' = w.disposables
    /\ callback' = w.callback
    /\ callbackQueued' = w.callbackQueued
    /\ observers' = w.observers
    /\ tickQueue' = w.tickQueue
    /\ calls' = w.calls
    /\ lastCall' = w.lastCall
    /\ thrown' = w.thrown
    /\ burst' = w.burst
    /\ lastOp' = op
    /\ changed' = (w.keys # keys)
    /\ script' = ScriptNext(script, op)
    /\ UNCHANGED <<view, workspace>>

(* The argument lists the constructor is called with. *)
CtorArgs ==
    <<  [callback |-> Undefined,   keys |-> <<>>],                       \* 1 ()
        [callback |-> Null,        keys |-> <<>>],                       \* 2 (null)
        [callback |-> Fn,          keys |-> <<>>],                       \* 3 (fn)
        [callback |-> Num(50),     keys |-> <<>>],                       \* 4 (50)
        [callback |-> Bool(FALSE), keys |-> <<>>],                       \* 5 (false)
        [callback |-> Ref(3),      keys |-> <<>>],                       \* 6 ({foo: "bar"})
        [callback |-> Fn,          keys |-> <<Str(<<"a">>), Str(<<"b">>)>>],  \* 7 (fn, "a", "b")
        [callback |-> Num(50),     keys |-> <<Str(<<"a">>)>>],           \* 8 (50, "a")
        [callback |-> Null,        keys |-> <<Str(<<"a">>)>>]  >>        \* 9 (null, "a")

CtorIds == 1..Len(CtorArgs)

(* new ObservedKeyList(fn), where the scenario starts. *)
FreshWithCallback == 3

(* new ObservedKeyList(...CtorArgs[i]) *)
Init ==
    \E i \in CtorIds :
        LET w == constructor(CtorArgs[i].callback, CtorArgs[i].keys) IN
        /\ keys = w.keys
        /\ disposables = w.disposables
        /\ callback = w.callback
        /\ callbackQueued = w.callbackQueued
        /\ observers = w.observers
        /\ tickQueue = w.tickQueue
        /\ calls = w.calls
        /\ lastCall = w.lastCall
        /\ lastOp = Op("new", i)
        /\ thrown = w.thrown
        /\ burst = w.burst
        /\ changed = FALSE
        /\ script = IF i = FreshWithCallback THEN 0 ELSE Len(ScriptSteps) + 1
        /\ view = NewView(TRUE, TRUE)
        /\ workspace = NewWorkspace("viewPane")

(* The model stops opening coalescing windows, and stops feeding one, at   *)
(* its bounds; the scheduler is never held back.                           *)
WithinBounds(w) ==
    /\ w.calls + Len(w.tickQueue) <= MaxCalls
    /\ w.burst <= MaxBurst

CallAdd(i) ==
    LET w == add(World, Inputs[i]) IN
    /\ WithinBounds(w)
    /\ Commit(w, Op("add", i))

CallDelete(i) == Commit(delete(World, Inputs[i]), Op("delete", i))

CallClear == Commit(clear(World), Op("clear", 0))

SetConfig(key) ==
    LET w == ConfigSet(World, key) IN
    /\ WithinBounds(w)
    /\ Commit(w, SetOp(key))

SetCallback(value) ==
    /\ value # callback
    /\ Commit([World EXCEPT !.callback = value], Op("callback", 0))

NextTick == Commit(Drain(World), Op("tick", 0))

(* The key a callback's body sets. *)
KeyOfCallback == <<"a">>

(* The list operations a callback's body makes on its own list. *)
Bodies == <<Op("add", 1), Op("observe", 2), Op("delete", 1), Op("remove", 2),
            Op("clear", 0)>>

(* A turn that fires the scheduled dispatch, the callback being a function *)
(* that calls Bodies[b] on the list.                                       *)
CallbackRuns(b) ==
    LET w == DrainRunning(World, Bodies[b]) IN
    /\ tickQueue # <<>>
    /\ callback = "fn"
    /\ WithinBounds(w)
    /\ Commit(w, Op("reenter", b))

(* A turn that fires the scheduled dispatch, the callback being a function *)
(* that sets key to a value it does not have yet: the dispatch this        *)
(* schedules runs later in the turn, when the callback finds the value set.*)
CallbackMutates(key) ==
    LET w == Drain(DispatchMutating([World EXCEPT !.tickQueue = Tail(@)],
                                    Head(tickQueue), key)) IN
    /\ tickQueue # <<>>
    /\ callback = "fn"
    /\ WithinBounds(w)
    /\ Commit(w, [op |-> "reenter", arg |-> 0, key |-> key])

CallObserve(i) ==
    LET w == observe(World, Inputs[i]) IN
    /\ WithinBounds(w)
    /\ Commit(w, Op("observe", i))

CallUnobserve(i) == Commit(unobserve(World, Inputs[i]), Op("unobserve", i))

CallRemove(i) == Commit(remove(World, Inputs[i]), Op("remove", i))

Next ==
    \/ \E i \in AddIds : CallAdd(i)
    \/ \E i \in DeleteIds : CallDelete(i)
    \/ CallClear
    \/ \E key \in ConfigKeys : SetConfig(key)
    \/ \E value \in {"null", "fn", "notfn"} : SetCallback(value)
    \/ NextTick
    \/ \E b \in 1..Len(Bodies) : CallbackRuns(b)
    \/ CallbackMutates(KeyOfCallback)
    \/ CallObserve(3)
    \/ CallUnobserve(1)
    \/ CallRemove(2)

Spec == Init /\ [][Next]_vars

----------------------------------------------------------------------------
(* The state machine of a view and its list, observedKeys, whose callback  *)
(* is the view's handleRender.                                             *)

Items == <<"view", "other">>
KeyOfView == <<"a">>
Panes == <<"viewPane", "otherPane">>
Outcomes == <<"resolve", "reject">>

(* The scenario: the view loads while it is in no pane; the host makes it  *)
(* the active item of the active pane; render() resolves.                  *)
ViewScriptSteps == <<Op("load", 0), Op("activate-item", 1), Op("settle", 1)>>

ViewScriptNext(at, op) ==
    IF at < Len(ViewScriptSteps) /\ op = ViewScriptSteps[at + 1]
    THEN at + 1
    ELSE Len(ViewScriptSteps) + 1

(* The site a step starts from: the log is that of the step. *)
Site == [view |-> [view EXCEPT !.log = <<>>], workspace |-> workspace]

ViewCommit(w, s, op) ==
    /\ keys' = w.keys
    /\ disposables' = w.disposables
    /\ callback' = w.callback
    /\ callbackQueued' = w.callbackQueued
    /\ observers' = w.observers
    /\ tickQueue' = w.tickQueue
    /\ calls' = w.calls
    /\ lastCall' = w.lastCall
    /\ thrown' = w.thrown
    /\ burst' = w.burst
    /\ lastOp' = op
    /\ changed' = (w.keys # keys)
    /\ script' = ViewScriptNext(script, op)
    /\ view' = s.view
    /\ workspace' = s.workspace

(* new AtomLiveView(state), in a workspace whose active pane is the one    *)
(* the view will be shown in, or another.                                  *)
ViewInit ==
    \E autoRefresh \in BOOLEAN, autoFocus \in BOOLEAN, p \in 1..Len(Panes) :
        LET w == constructor(Fn, <<>>) IN
        /\ keys = w.keys
        /\ disposables = w.disposables
        /\ callback = w.callback
        /\ callbackQueued = w.callbackQueued
        /\ observers = w.observers
        /\ tickQueue = w.tickQueue
        /\ calls = w.calls
        /\ lastCall = w.lastCall
        /\ lastOp = Op("new", FreshWithCallback)
        /\ thrown = w.thrown
        /\ burst = w.burst
        /\ changed = FALSE
        /\ script = IF Panes[p] = "viewPane" THEN 0 ELSE Len(ViewScriptSteps) + 1
        /\ view = NewView(autoRefresh, autoFocus)
        /\ workspace = NewWorkspace(Panes[p])

(* The host calls the functions the view registered, until destroy()       *)
(* disposes of the registrations.                                          *)
Subscribed == view.loaded /\ ~view.destroyed

(* The promise of waitToLoad() resolves. *)
Load ==
    /\ ~view.loaded
    /\ ViewCommit(World, load(Site), Op("load", 0))

(* observeConfig(...keys) *)
ObserveConfig(i) ==
    LET w == add(World, Inputs[i]) IN
    /\ WithinBounds(w)
    /\ ViewCommit(w, Site, Op("add", i))

(* unobserveConfig(...keys) *)
UnobserveConfig(i) == ViewCommit(delete(World, Inputs[i]), Site, Op("delete", i))

ViewSetConfig(key) ==
    LET w == ConfigSet(World, key) IN
    /\ WithinBounds(w)
    /\ ViewCommit(w, Site, SetOp(key))

(* One turn of the scheduler: a dispatch of the list calls handleRender. *)
ViewTick ==
    LET w == Drain(World) IN
    ViewCommit(w, IF w.calls > calls THEN handleRender(Site) ELSE Site, Op("tick", 0))

(* The source changes: the file on disk, or the editor's buffer. *)
SourceChange ==
    /\ Subscribed
    /\ ViewCommit(World, onChange(Site), Op("source-change", 0))

(* The editor of the source is destroyed. *)
EditorDestroyed ==
    /\ Subscribed
    /\ ViewCommit(World, watchFile(Site), Op("watch-file", 0))

(* pane.activateItem(item) by the host, on the pane the view is shown in,  *)
(* which adds the item to the pane if need be.                             *)
HostActivateItem(i) ==
    LET shown == [Site EXCEPT !.workspace.paneItem = Items[i],
                              !.workspace.viewInPane = @ \/ Items[i] = "view"]
        reported == workspace.activePane = "viewPane" /\ Items[i] # workspace.paneItem
    IN  /\ Items[i] # workspace.paneItem
        /\ ViewCommit(World,
                      IF reported /\ Subscribed
                      THEN onActivePaneItem(shown, Items[i])
                      ELSE shown,
                      Op("activate-item", i))

(* pane.activate() by the host, on another pane than the active one *)
HostActivatePane(p) ==
    LET shown == [Site EXCEPT !.workspace.activePane = Panes[p]] IN
    /\ Panes[p] # workspace.activePane
    /\ ViewCommit(World,
                  IF Subscribed
                  THEN onActivePaneItem(shown, ActivePaneItem(shown.workspace))
                  ELSE shown,
                  Op("activate-pane", p))

(* The promise of the render() in flight settles. *)
RenderSettles(o) ==
    /\ view.inFlight > 0
    /\ ViewCommit(World, handleRenderResumes(Site, Outcomes[o]), Op("settle", o))

(* destroy() *)
Destroy ==
    /\ ~view.destroyed
    /\ ViewCommit(clear(World), destroy(Site), Op("destroy", 0))

ViewNext ==
    \/ Load
    \/ ObserveConfig(1)
    \/ UnobserveConfig(1)
    \/ ViewSetConfig(KeyOfView)
    \/ ViewTick
    \/ SourceChange
    \/ EditorDestroyed
    \/ \E i \in 1..Len(Items) : HostActivateItem(i)
    \/ \E p \in 1..Len(Panes) : HostActivatePane(p)
    \/ \E o \in 1..Len(Outcomes) : RenderSettles(o)
    \/ Destroy

ViewSpec == ViewInit /\ [][ViewNext]_vars

----------------------------------------------------------------------------
(* What the claims speak of. *)

KeyA == <<"a">>
KeyB == <<"b">>

(* A deferred dispatch is scheduled and has not fired. *)
Pending == tickQueue # <<>>

(* The host holds a live subscription for the key. *)
Observed(key) == \E o \in observers : o.key = key

(* The keys an argument list names, and whether normalising it returns. *)
Normalised == [i \in InputIds |-> NormaliseArgs(Inputs[i])]
OutputOf(i) == SeqToSet(Normalised[i].output)
Returns(i) == Normalised[i].thrown = "none"

(* The subscriptions of a key: what the store holds for it, and what the   *)
(* host does.                                                              *)
HandlesOf(store, key) == {p[2] : p \in {q \in store.map : q[1] = key}}
LiveOf(obs, key) == {o.id : o \in {x \in obs : x.key = key}}

(* The step delivers at least one notification to the list's handler. *)
Notifies ==
    \/ lastOp'.op = "set" /\ Observed(lastOp'.key)
    \/ lastOp'.op = "add" /\ changed'

----------------------------------------------------------------------------
(* C1. Coalescing: the notifications that arrive, from any observed key,   *)
(* between the scheduling of a deferred dispatch and its firing are        *)
(* answered by exactly one invocation of the callback; a notification that *)
(* arrives after the dispatch has fired opens a new window, answered by    *)
(* exactly one further invocation.  In steps: a step that notifies a list  *)
(* whose callback is a function leaves exactly one dispatch scheduled,     *)
(* whether or not one was scheduled before, and invokes nothing; the turn  *)
(* in which the dispatch fires invokes the callback exactly once and       *)
(* leaves nothing scheduled; a turn with nothing scheduled invokes nothing.*)
C1_Coalescing ==
    [][ /\ Len(tickQueue') <= 1
        /\ (callback = "fn" /\ Notifies) =>
               (Len(tickQueue') = 1 /\ calls' = calls /\ burst' >= 1)
        /\ (callback = "fn" /\ Notifies /\ Pending) =>
               (tickQueue' = tickQueue /\ burst' > burst)
        /\ (lastOp'.op = "tick" /\ callback = "fn" /\ Pending) =>
               (calls' = calls + 1 /\ tickQueue' = <<>> /\ burst >= 1)
        /\ (lastOp'.op = "tick" /\ ~Pending) => calls' = calls
      ]_vars

(* add a; turn; set a three times; turn: two invocations in all, the       *)
(* second one answering a window of three notifications.                   *)
C1_Witness ==
    /\ lastOp.op = "tick" /\ callback = "fn" /\ ~Pending
    /\ calls = 2 /\ burst = 3 /\ keys = {KeyA}

C3_AddNotifiesOnce ==
    [][ (lastOp'.op = "add" /\ changed' /\ callback = "fn"
            /\ ~Pending /\ ~callbackQueued) =>
            /\ Len(tickQueue') = 1 /\ callbackQueued' /\ calls' = calls
            /\ Drain(World').calls = calls + 1
            /\ Drain(World').tickQueue = <<>>
            /\ ~Drain(World').callbackQueued
      ]_vars

(* add a on a new list, then one turn: one invocation, answering the one   *)
(* notification that observing the key made.                               *)
C3_Witness ==
    /\ lastOp.op = "tick" /\ callback = "fn" /\ ~Pending
    /\ calls = 1 /\ burst = 1 /\ keys = {KeyA}

(* C4. add() of keys that are all in the Set already is a no-op: the       *)
(* contents, the store and its handles, the host's subscriptions (no       *)
(* second observe call) and the pending flag are what they were, and no    *)
(* dispatch is scheduled or invocation made.  Whatever else a call adds,   *)
(* a key that was present keeps the handle it had.                         *)
C4_AddPresentIsNoOp ==
    [][ \A i \in AddIds :
          (lastOp' = Op("add", i) /\ Returns(i)) =>
            /\ \A key \in OutputOf(i) \cap keys :
                  /\ HandlesOf(disposables', key) = HandlesOf(disposables, key)
                  /\ LiveOf(observers', key) = LiveOf(observers, key)
            /\ (OutputOf(i) # {} /\ OutputOf(i) \subseteq keys) =>
                  /\ UNCHANGED <<keys, disposables, observers, callbackQueued,
                                 tickQueue, calls, burst>>
                  /\ thrown' = "none"
      ]_vars

(* add(" a  b ") has returned on a list that held a and b, with a function as *)
(* callback: nothing is scheduled.                                         *)
C4_Witness ==
    /\ lastOp = Op("add", 6) /\ ~changed /\ thrown = "none"
    /\ keys = {KeyA, KeyB} /\ callback = "fn" /\ ~Pending /\ calls = 1

(* C5. delete() of keys, present or not, raises no error and returns with  *)
(* none of them in the Set, the size smaller by the number of them that    *)
(* were present, their subscriptions cancelled and nothing scheduled or    *)
(* invoked by the removal; a later mutation of a key that is not in the    *)
(* Set notifies nobody, so that with no dispatch pending it leads to no    *)
(* invocation.                                                             *)
C5_DeleteStopsObserving ==
    [][ /\ \A i \in DeleteIds :
              (lastOp' = Op("delete", i) /\ Returns(i)) =>
                /\ thrown' = "none"
                /\ keys' = keys \ OutputOf(i)
                /\ Cardinality(keys') =
                       Cardinality(keys) - Cardinality(OutputOf(i) \cap keys)
                /\ \A key \in OutputOf(i) :
                       LiveOf(observers', key) = {} /\ HandlesOf(disposables', key) = {}
                /\ \A key \in keys' :
                       LiveOf(observers', key) = LiveOf(observers, key)
                /\ UNCHANGED <<tickQueue, callbackQueued, calls, callback>>
        /\ (lastOp'.op = "set" /\ lastOp'.key \notin keys) =>
                /\ UNCHANGED <<tickQueue, callbackQueued, calls, burst>>
                /\ (~Pending => Drain(World').calls = calls)
      ]_vars

(* delete("a") has removed a, with nothing pending. *)
C5_Witness ==
    /\ lastOp = Op("delete", 1) /\ changed /\ thrown = "none"
    /\ KeyA \notin keys /\ ~Observed(KeyA) /\ ~Pending /\ calls = 1 /\ callback = "fn"

(* C6. clear() returns, from any state, with the Set empty, every          *)
(* subscription the store held cancelled, a new and empty store in place   *)
(* of the old one, and the callback it found; a second clear() changes     *)
(* none of that and raises no error.                                       *)
C6_ClearReleasesAll ==
    [][ lastOp'.op = "clear" =>
          /\ keys' = {} /\ thrown' = "none"
          /\ \A p \in disposables.map : \A o \in observers' : o.id # p[2]
          /\ observers' = {}
          /\ disposables'.map = {} /\ ~disposables'.disposed
          /\ disposables'.id # disposables.id
          /\ UNCHANGED <<callback, callbackQueued, tickQueue, calls>>
          /\ lastOp.op = "clear" =>
                /\ UNCHANGED <<keys, observers, callback, callbackQueued,
                               tickQueue, calls>>
                /\ disposables'.map = disposables.map
      ]_vars

(* clear() has emptied a list of two keys while a dispatch was pending. *)
C6_Witness ==
    /\ lastOp.op = "clear" /\ changed /\ keys = {} /\ observers = {}
    /\ disposables.map = {} /\ callback = "fn" /\ Pending /\ burst = 2

(* C7, as the specification states it: on a new list with a callback,      *)
(* add("a"); delete("a"); a mutation of a; one scheduler turn leaves the   *)
(* callback with no invocation.                                            *)
C7_NoInvocation == script = Len(ScriptSteps) => calls = 0

(* C7, amended: the scenario leaves the callback with exactly one          *)
(* invocation, that of the dispatch add() scheduled when the host called   *)
(* the handler on observing a; the mutation of a, made after the removal,  *)
(* adds nothing to it, and the list is left empty and unsubscribed.        *)
C7_OneInvocation ==
    /\ script = Len(ScriptSteps) =>
          (calls = 1 /\ burst = 1 /\ keys = {} /\ observers = {} /\ ~Pending)
    /\ script = Len(ScriptSteps) - 1 => (Len(tickQueue) = 1 /\ burst = 1 /\ calls = 0)

(* The scenario has run to its end. *)
C7_Witness == script = Len(ScriptSteps) /\ lastOp.op = "tick"

(* C8. A dispatch that is scheduled when delete() or clear() is called is  *)
(* not cancelled: the call leaves it scheduled, and the turn that follows  *)
(* fires it exactly once; a mutation of a key that is no longer in the Set *)
(* is not delivered and schedules nothing.                                 *)
C8_RemovalKeepsDispatch ==
    [][ /\ lastOp'.op \in {"delete", "clear"} =>
              /\ UNCHANGED <<tickQueue, callbackQueued, burst, calls>>
              /\ (Pending /\ callback = "fn") =>
                    /\ Drain(World').calls = calls + 1
                    /\ Drain(World').tickQueue = <<>>
        /\ (lastOp'.op = "set" /\ lastOp'.key \notin keys) =>
              /\ ~Observed(lastOp'.key)
              /\ UNCHANGED <<tickQueue, callbackQueued, burst, calls>>
      ]_vars

(* The first invocation of the callback was made on a list that clear()    *)
(* had emptied while the dispatch was scheduled.                           *)
C8_Witness ==
    /\ lastOp.op = "tick" /\ calls = 1 /\ burst = 2 /\ callback = "fn"
    /\ keys = {} /\ observers = {} /\ disposables.id # 1

(* C9. Every invocation of the callback is made with no argument and with  *)
(* the list as receiver, whatever the host passed to the handler; so is    *)
(* every dispatch that is scheduled.                                       *)
C9_NoArgumentsOwnContext ==
    /\ calls > 0 => lastCall = [args |-> 0, thisArg |-> "instance"]
    /\ \A n \in 1..Len(tickQueue) :
          tickQueue[n] = [args |-> 0, thisArg |-> "instance"]

(* The callback has been invoked for the initial observation and again for *)
(* a mutation, which the host reports with the new value as argument.      *)
C9_Witness ==
    /\ lastOp.op = "tick" /\ calls = 2 /\ keys = {KeyA}
    /\ lastCall = [args |-> 0, thisArg |-> "instance"]

(* C10. Normalisation does not depend on the shape of the argument: from   *)
(* any state, add("a b"), add(["a", "b"]), add("a", "b"), add(" a  b ")    *)
(* and the same nested in further arrays lead to one and the same state,   *)
(* whose Set is the old one with a and b and in which a and b have one     *)
(* subscription each; and delete() of each leads to one and the same       *)
(* state, without a and b.                                                 *)
Shapes == {3, 4, 5, 6, 7, 8}

C10_ShapeIndependent ==
    LET added == add(World, Inputs[3])
        deleted == delete(World, Inputs[3])
    IN /\ \A i \in Shapes :
            /\ add(World, Inputs[i]) = added
            /\ delete(World, Inputs[i]) = deleted
       /\ added.thrown = "none" /\ deleted.thrown = "none"
       /\ added.keys = keys \cup {KeyA, KeyB}
       /\ deleted.keys = keys \ {KeyA, KeyB}
       /\ \A key \in {KeyA, KeyB} :
            /\ Cardinality(LiveOf(added.observers, key)) = 1
            /\ LiveOf(added.observers, key) = HandlesOf(added.disposables, key)
            /\ LiveOf(deleted.observers, key) = {}

(* add(" a  b ") has added a and b to an empty list. *)
C10_Witness ==
    /\ lastOp = Op("add", 6) /\ changed /\ thrown = "none"
    /\ keys = {KeyA, KeyB} /\ LiveOf(observers, KeyA) # {} /\ LiveOf(observers, KeyB) # {}

----------------------------------------------------------------------------
(* C11. Empty and blank strings are dropped by normalisation: the empty    *)
(* string is never a key of the Set and is never subscribed to.            *)
Blank == <<>>

C11_BlankDropped == Blank \notin keys /\ ~Observed(Blank)

(* C12. An argument of add() that is neither a string nor an iterable is   *)
(* coerced to its string form: add("", 50, "b") leaves the key "50" in the *)
(* Set, with a subscription.                                               *)
Fifty == <<"5", "0">>

C12_ScalarCoerced ==
    (lastOp = Op("add", 11) /\ thrown = "none") =>
        (Fifty \in keys /\ Observed(Fifty))

(* C13. add() and delete() given an object that is not iterable, as an     *)
(* argument or nested one or two arrays deep, throw the TypeError "Object  *)
(* is not iterable" before they return.                                    *)
WithPlainObject == {12, 13, 14}

C13_NotIterableThrows ==
    /\ \A i \in WithPlainObject :
          /\ add(World, Inputs[i]).thrown = NotIterable
          /\ delete(World, Inputs[i]).thrown = NotIterable
    /\ (lastOp.op \in {"add", "delete"} /\ lastOp.arg \in WithPlainObject) =>
          thrown = NotIterable

(* add("a", ["a", {foo: "bar"}]) has thrown. *)
C13_Witness == lastOp = Op("add", 13) /\ thrown = NotIterable

(* C14, as the specification states it: when add("a", ["a", {foo: "bar"}]) *)
(* fails with the not-iterable error, the key a that precedes the          *)
(* offending argument has been added and subscribed, and stays.            *)
C14_PrecedingKeysAdded ==
    (lastOp = Op("add", 13) /\ thrown = NotIterable) =>
        (KeyA \in keys /\ Observed(KeyA))

(* C14, amended: add() normalises its whole argument list before it adds   *)
(* the first key, so a call that fails with the not-iterable error has     *)
(* added and subscribed no key at all: the Set, the store, the host's      *)
(* subscriptions and the scheduler are what they were before the call.     *)
C14_FailedAddChangesNothing ==
    [][ \A i \in AddIds :
          (lastOp' = Op("add", i) /\ ~Returns(i)) =>
            /\ thrown' = NotIterable
            /\ UNCHANGED <<keys, disposables, observers, callbackQueued,
                           tickQueue, calls, callback>>
      ]_vars

(* add("a", ["a", {foo: "bar"}]) has thrown on a list without a, which     *)
(* still has no a.                                                         *)
C14_Witness ==
    /\ lastOp = Op("add", 13) /\ thrown = NotIterable
    /\ KeyA \notin keys /\ ~Observed(KeyA) /\ ~changed

(* C15. A constructor given a callback that is not null and not a function *)
(* throws a TypeError with no key added and no host subscription made, the *)
(* keys that follow the callback included; given no callback, or null, it  *)
(* returns an instance whose callback is null.                             *)
InvalidCallback == {i \in CtorIds : CtorArgs[i].callback \notin {Undefined, Null, Fn}}
NoCallback == {i \in CtorIds : CtorArgs[i].callback \in {Undefined, Null}}

C15_ConstructorValidates ==
    /\ InvalidCallback = {4, 5, 6, 8} /\ NoCallback = {1, 2, 9}
    /\ \A i \in InvalidCallback :
          LET w == constructor(CtorArgs[i].callback, CtorArgs[i].keys) IN
          /\ w.thrown = NotAFunctionArg
          /\ w.keys = {} /\ w.observers = {} /\ w.disposables.map = {}
          /\ w.tickQueue = <<>>
    /\ (lastOp.op = "new" /\ lastOp.arg \in InvalidCallback) =>
          /\ thrown = NotAFunctionArg /\ ~Constructed
          /\ keys = {} /\ observers = {} /\ tickQueue = <<>>
    /\ (lastOp.op = "new" /\ lastOp.arg \in NoCallback) =>
          (thrown = "none" /\ Constructed /\ callback = "null")

(* new ObservedKeyList(50, "a") has thrown. *)
C15_Witness == lastOp = Op("new", 8) /\ thrown = NotAFunctionArg /\ observers = {}

(* C16. In every reachable state the callback property holds null or a     *)
(* function: an assignment of any other value is refused.                  *)
C16_CallbackValid == callback \in {"null", "fn"}

(* C19. In every state, whatever add, delete and clear calls led to it,    *)
(* through their aliases and from inside the callback as well: the keys of *)
(* the Set are the keys of the store, the store holds exactly one          *)
(* subscription for each of them and that subscription is live at the      *)
(* host, and the host holds no subscription of the list for any other key. *)
C19_KeysMatchStore ==
    /\ keys = {p[1] : p \in disposables.map}
    /\ \A key \in keys :
          /\ Cardinality(HandlesOf(disposables, key)) = 1
          /\ LiveOf(observers, key) = HandlesOf(disposables, key)
    /\ \A o \in observers : o.key \in keys
    /\ Constructed => ~disposables.disposed

(* The callback, invoked for a, called observe("b") on its list, which     *)
(* holds both keys after the turn.                                         *)
C19_Witness ==
    /\ lastOp = Op("reenter", 2) /\ Bodies[2] = Op("observe", 2)
    /\ keys = {KeyA, KeyB} /\ changed /\ calls = 2
    /\ Cardinality(observers) = 2

(* C20. In every state at most one dispatch is scheduled, and the flag     *)
(* callbackQueued is set exactly when one is; so it is after the scheduled *)
(* dispatch has run a callback that calls the list, before the turn goes   *)
(* on.                                                                     *)
C20_OneDispatch ==
    /\ Len(tickQueue) <= 1
    /\ callbackQueued <=> tickQueue # <<>>
    /\ tickQueue # <<>> =>
          \A b \in 1..Len(Bodies) :
              LET mid == DispatchRunning([World EXCEPT !.tickQueue = Tail(@)],
                                         Head(tickQueue), Bodies[b])
              IN  /\ Len(mid.tickQueue) <= 1
                  /\ mid.callbackQueued <=> mid.tickQueue # <<>>

(* a is added again after a removal, the dispatch scheduled by an earlier  *)
(* add still outstanding: one dispatch, answering two notifications.       *)
C20_Witness ==
    /\ lastOp = Op("add", 1) /\ changed /\ keys = {KeyA}
    /\ calls = 0 /\ burst = 2 /\ Len(tickQueue) = 1 /\ callbackQueued

----------------------------------------------------------------------------
(* What the claims about the view speak of. *)

(* The values a step assigned to renderState, in order. *)
StatesOf(log) ==
    LET assigned == SelectSeq(log, LAMBDA e : e.kind = "state")
    IN [n \in 1..Len(assigned) |-> assigned[n].value]

(* The number of times a step invoked the render procedure. *)
RenderCalls(log) ==
    Len(SelectSeq(log, LAMBDA e : e.kind = "call" /\ e.value = "render"))

(* The step makes a render request: it calls handleRender, from a dispatch *)
(* of the list, a change of the source, watchFile or the load.             *)
RequestsRender ==
    \/ lastOp'.op = "tick" /\ tickQueue # <<>>
    \/ lastOp'.op = "source-change" /\ view.autoRefresh
    \/ lastOp'.op = "watch-file"
    \/ lastOp'.op = "load" /\ ~view.destroyed

(* The step has the host report the view as the active pane item to the    *)
(* view's observer: on a change of it, or when the observer registers.     *)
ReportsView ==
    /\ ActivePaneItem(workspace') = "view"
    /\ \/ lastOp'.op \in {"activate-item", "activate-pane"} /\ Subscribed
       \/ lastOp'.op = "load" /\ ~view.destroyed

(* C17. A render request made while the view is not visible, no render     *)
(* being in progress, leaves renderState pending and does not invoke the   *)
(* render procedure.  When the host then reports the view as the active    *)
(* pane item, renderState is set to none and then to rendering in that     *)
(* step, which invokes the render procedure exactly once, and the          *)
(* completion of that render sets finished, with no further invocation.    *)
(* So it goes for a view that loads in no pane and is then shown.          *)
C17_Lifecycle ==
    [][ /\ (RequestsRender /\ ~isItemVisible(Site') /\ view.renderState # "rendering") =>
              /\ view'.renderState = "pending"
              /\ RenderCalls(view'.log) = 0
              /\ view'.inFlight = 0
        /\ (ReportsView /\ view.renderState = "pending") =>
              /\ StatesOf(view'.log) = <<"none", "rendering">>
              /\ RenderCalls(view'.log) = 1
              /\ view'.inFlight = 1
              /\ LET done == handleRenderResumes(Site', "resolve") IN
                    /\ done.view.renderState = "finished"
                    /\ StatesOf(done.view.log) = <<"finished">>
                    /\ RenderCalls(done.view.log) = 0
                    /\ done.view.inFlight = 0
        /\ script' = 1 => StatesOf(view'.log) = <<"pending">>
        /\ script' = 2 => StatesOf(view'.log) = <<"none", "rendering">>
        /\ script' = 3 => StatesOf(view'.log) = <<"finished">>
      ]_vars

(* The scenario has run to its end: loaded in no pane, shown, rendered. *)
C17_Witness ==
    /\ script = Len(ViewScriptSteps) /\ lastOp = Op("settle", 1)
    /\ view.renderState = "finished" /\ view.inFlight = 0

(* C18. The render procedure is never started while an invocation of it    *)
(* has not settled: a step invokes it at most once, and only when none is  *)
(* in flight; an invocation in flight has renderState at rendering.        *)
C18_RendersNeverOverlap ==
    [][ /\ RenderCalls(view'.log) <= 1
        /\ RenderCalls(view'.log) = 1 => (view.inFlight = 0 /\ view'.inFlight = 1)
        /\ view'.inFlight <= 1
        /\ view'.inFlight = 1 => view'.renderState = "rendering"
      ]_vars

(* A dispatch of the list has called handleRender on a visible view while  *)
(* a render was in flight, and started none.                               *)
C18_Witness ==
    /\ lastOp = Op("tick", 0) /\ calls = 1 /\ view.log = <<>>
    /\ view.inFlight = 1 /\ isItemVisible(Site)

----------------------------------------------------------------------------
(* C21. A dispatch that fires after the callback was set to null clears    *)
(* the flag, invokes nothing and raises no error.                          *)
C21_NullCallbackIsSilent ==
    [][ (lastOp'.op = "tick" /\ Pending /\ callback = "null") =>
            (~callbackQueued' /\ calls' = calls /\ thrown' = "none")
      ]_vars

(* C22. normaliseKeys returns for a collection that contains itself, for   *)
(* one that contains itself through another, and for one that holds the    *)
(* same collection twice; what it returns has the entries of each          *)
(* collection once, and add() of such an argument adds them.               *)
Revisiting == {9, 15, 16}

C22_VisitedOnce ==
    /\ \A i \in Revisiting : Returns(i) /\ Normalised[i].output = <<KeyA, KeyB>>
    /\ \A i \in Revisiting :
          LET w == add(World, Inputs[i]) IN
          w.thrown = "none" /\ w.keys = keys \cup {KeyA, KeyB}
    /\ (lastOp.op = "add" /\ lastOp.arg \in Revisiting) =>
          (thrown = "none" /\ {KeyA, KeyB} \subseteq keys)

(* add(y), y = ["a", ["b", y]], has returned, with a and b added. *)
C22_Witness ==
    /\ lastOp = Op("add", 15) /\ thrown = "none" /\ changed
    /\ keys = {KeyA, KeyB} /\ Cardinality(observers) = 2

----------------------------------------------------------------------------
(* C23, as the specification states it: renderState is always one of none, *)
(* rendering, pending, finished.                                           *)
C23_ListedValues == view.renderState \in {"none", "rendering", "pending", "finished"}

(* C23, amended: renderState is always the empty string, none, rendering,  *)
(* pending or finished; it is the empty string for a view of which no      *)
(* render has been requested yet, and every value assigned to it is one of *)
(* none, rendering, pending, finished.                                     *)
NotYetRequested == ~view.loaded /\ calls = 0

C23_RenderStateValues ==
    /\ view.renderState \in {"", "none", "rendering", "pending", "finished"}
    /\ NotYetRequested => view.renderState = ""
    /\ \A n \in 1..Len(StatesOf(view.log)) :
          StatesOf(view.log)[n] \in {"none", "rendering", "pending", "finished"}

(* The first render request of a view, made at its load in no pane, has    *)
(* taken renderState from the empty string to pending.                     *)
C23_Witness ==
    /\ lastOp = Op("load", 0) /\ calls = 0 /\ ~view.destroyed
    /\ view.renderState = "pending" /\ StatesOf(view.log) = <<"pending">>

(* The values renderState goes through in a step, the one it had included. *)
Path == <<view.renderState>> \o StatesOf(view'.log)

Changes == {<<Path[n], Path[n + 1]>> : n \in 1..(Len(Path) - 1)}

(* C24, as the specification states it: every change of renderState is one *)
(* of none to rendering, rendering to finished, none or finished to        *)
(* pending, pending to none.                                               *)
C24_ListedOnly ==
    [][ Changes \subseteq {<<"none", "rendering">>, <<"rendering", "finished">>,
                           <<"none", "pending">>, <<"finished", "pending">>,
                           <<"pending", "none">>}
      ]_vars

(* C24, amended: every change of renderState is one of: the empty string,  *)
(* none or finished to rendering (request while visible); the empty        *)
(* string, none or finished to pending (request while not visible);        *)
(* rendering to finished (the render completes); pending to none (the      *)
(* host reports the view as the active pane item).                         *)
C24_Transitions ==
    [][ /\ Changes \subseteq
              {<<"", "rendering">>, <<"none", "rendering">>, <<"finished", "rendering">>,
               <<"", "pending">>, <<"none", "pending">>, <<"finished", "pending">>,
               <<"rendering", "finished">>, <<"pending", "none">>}
        /\ view'.renderState = Path[Len(Path)]
        /\ \A c \in Changes :
              /\ c[2] = "rendering" => isItemVisible(Site')
              /\ c[2] = "pending" => ~isItemVisible(Site')
              /\ c[2] = "finished" => lastOp' = Op("settle", 1)
              /\ c[2] = "none" => ReportsView
      ]_vars

(* A render has started on a view that had finished one: renderState has   *)
(* gone from finished to rendering.                                        *)
C24_Witness ==
    /\ StatesOf(view.log) = <<"rendering">> /\ ~view.offsets
    /\ view.inFlight = 1 /\ lastOp = Op("source-change", 0)

(* C25. A render request that arrives while renderState is rendering or    *)
(* pending changes nothing: handleRender returns with the view as it was,  *)
(* no value assigned, no event emitted, the render procedure not invoked;  *)
(* and the completion of the render in flight starts no other render.      *)
C25_Swallowed ==
    [][ view.renderState \in {"rendering", "pending"} =>
          /\ handleRender(Site) = Site
          /\ (lastOp'.op = "tick" /\ tickQueue # <<>>) =>
                (view' = Site.view /\ workspace' = workspace)
          /\ lastOp'.op = "source-change" => view' = Site.view
          /\ lastOp'.op = "watch-file" =>
                /\ view'.renderState = view.renderState
                /\ StatesOf(view'.log) = <<>> /\ RenderCalls(view'.log) = 0
          /\ (RequestsRender /\ view.inFlight = 1) =>
                LET done == handleRenderResumes(Site', "resolve") IN
                /\ done.view.renderState = "finished"
                /\ RenderCalls(done.view.log) = 0 /\ done.view.inFlight = 0
      ]_vars

(* A change of the source has asked a view whose renderState is pending to *)
(* render, and nothing came of it.                                         *)
C25_Witness ==
    /\ lastOp = Op("source-change", 0) /\ view.autoRefresh
    /\ view.renderState = "pending" /\ view.log = <<>> /\ ~isItemVisible(Site)

(* C26. When the render procedure settles, whether it succeeds or fails,   *)
(* renderState is set to finished.                                         *)
C26_SettledRenderFinishes ==
    [][ lastOp'.op = "settle" =>
            (view'.renderState = "finished" /\ view'.inFlight = 0)
      ]_vars

----------------------------------------------------------------------------
(* C27. A notification that arrives while the callback is executing,       *)
(* because the callback mutates an observed key, is not dropped: when the  *)
(* callback returns, a new dispatch is scheduled and the flag is set, and  *)
(* that dispatch invokes the callback once more.                           *)
MutatedInCallback == lastOp'.op = "reenter" /\ lastOp'.arg = 0

C27_ReentrantChangeKept ==
    [][ (MutatedInCallback /\ Observed(lastOp'.key)) =>
            LET returned == DispatchMutating([World EXCEPT !.tickQueue = Tail(@)],
                                             Head(tickQueue), lastOp'.key)
            IN  /\ returned.calls = calls + 1
                /\ Len(returned.tickQueue) = 1 /\ returned.callbackQueued
                /\ calls' = calls + 2 /\ tickQueue' = <<>> /\ ~callbackQueued'
      ]_vars

(* The callback was invoked for the observation of a, set a, and was       *)
(* invoked again.                                                          *)
C27_Witness ==
    /\ lastOp = [op |-> "reenter", arg |-> 0, key |-> KeyA]
    /\ KeyA \in keys /\ calls = 2 /\ burst = 1 /\ ~Pending

----------------------------------------------------------------------------
(* C28. A render request made while the view is visible leads to a render: *)
(* when the request returns, a render is in flight, started by it or       *)
(* before it.                                                              *)
C28_VisibleRequestRenders ==
    [][ (RequestsRender /\ isItemVisible(Site')) => view'.inFlight = 1 ]_vars

(* C29. Once destroy() has returned, the view starts no render and its     *)
(* renderState does not change.                                            *)
C29_DestroyedViewIsInert ==
    [][ view.destroyed =>
            (view'.renderState = view.renderState /\ RenderCalls(view'.log) = 0)
      ]_vars

====
